---- MODULE Spec2Model ----
(***************************************************************************)
(* easycrab: decryption of one EasyCrypt V2 container (src/main.rs).       *)
(*                                                                         *)
(* The program is one sequential function, main.  The model follows it     *)
(* statement by statement: pc is the position in main, the other variables *)
(* are main's locals and the part of the file system main touches.         *)
(*                                                                         *)
(* Byte counts, offsets and lengths are the program's own numbers.  Byte   *)
(* contents are symbolic:                                                  *)
(*   - a SHA-512 digest is a pair <<first 32 bytes, last 32 bytes>>;       *)
(*   - a ciphertext is known by the key it was encrypted under and by what *)
(*     it holds; decrypting it under another key yields junk, and whether  *)
(*     junk happens to carry valid PKCS7 padding is a property of the file *)
(*     (ckJunkPad, junkPad);                                               *)
(*   - a plaintext stream is "plain" while it is a prefix of the           *)
(*     container's plaintext and "junk" once anything else went into it.   *)
(*                                                                         *)
(* The content of the input file is drawn when main first reads it and is  *)
(* remembered in `file` (`known` names the fields drawn so far), so that a *)
(* second invocation on the same file sees the same bytes.                 *)
(***************************************************************************)
EXTENDS Integers, Sequences, FiniteSets, TLC

VARIABLES
    args,             \* struct Args: force, no_write, override_password, password
    file,             \* the input file and its environment, as far as drawn
    known,            \* the fields of `file` drawn so far
    dest,             \* the file at new_file_name: [exists, tag, len]
    truncated,        \* the input file was truncated by this run's File::create
    pc,               \* position in main
    outcome,          \* "running", "ok", or the kind of abort
    warned,           \* "Warning: checksum mismatch" was printed
    opened,           \* enc_file is open
    pos,              \* enc_file's cursor
    magic,            \* magic[0..3] and magic[3], once read
    iv, salt, hash,   \* the header fields, once read
    key,              \* key, once taken
    data_length,      \* checksum_offset - DATA_OFFSET
    src_checksum,     \* the unpadded trailing checksum
    ck_dec,           \* the checksum decryptor (line 99)
    aes_cbc_dec,      \* the content decryptor (line 106)
    dec_file,         \* "None" or "Some"
    loop_count,       \* the range bound of the chunk loop
    iter,             \* chunk-loop iterations done
    processed_bytes,
    last_read,        \* what the final read returned
    final_len,        \* data_length - processed_bytes, once sliced
    filehasher,       \* [bytes, tag]: what went into the SHA-1 accumulator
    calc_checksum,    \* the finalized content hash
    phase,            \* 1: first invocation, 2: the --no-write invocation after it
    first             \* the first invocation's result, kept for the second

locals == <<pc, outcome, warned, opened, pos, magic, iv, salt, hash, key,
            data_length, src_checksum, ck_dec, aes_cbc_dec, dec_file,
            loop_count, iter, processed_bytes, last_read, final_len,
            filehasher, calc_checksum>>
world  == <<file, known, dest, truncated>>
vars   == <<args, world, locals, phase, first>>

----------------------------------------------------------------------------
(* Program constants *)

IV_OFFSET   == 67       \* 0x43
DATA_OFFSET == 163      \* 0xA3
CHUNK_SIZE  == 32768    \* 0x8000
BLOCK       == 16       \* AES block, U16
MAGIC_LEN   == 7        \* [0u8; 7]
IV_LEN      == 16
SALT_LEN    == 16
HASH_LEN    == 64
CK_LEN      == 32       \* [0u8; 32], SeekFrom::End(-0x20)
SHA1_LEN    == 20       \* Sha1 output, the N of calc_checksum
EZC         == <<69, 90, 67>>   \* 0x45 0x5a 0x43
VERSION     == 2

(* Bounds of the model *)

MaxChunks == 2          \* data regions hold up to MaxChunks full chunks and a tail

None == 0               \* Option::None for the password

Passwords == {1, 2}
Salts     == {1, 2}
Keys      == {1, 2}     \* the values of the first 32 bytes of a digest
Tails     == {1, 2}     \* the values of the last 32 bytes of a digest

\* what the first seven bytes may hold: every mix of the right and a wrong byte
Magics    == { <<a, b, c>> : a \in {69, 70}, b \in {90, 0}, c \in {67, 255} }
Majors    == {1, 2, 3}

\* data-region lengths: c full chunks plus a tail
TailLens  == {0, 1, 16, 20}
DataLens  == { c * CHUNK_SIZE + d : c \in 0..MaxChunks, d \in TailLens }
\* files cut inside the header, inside the trailing checksum, and complete ones
Sizes     == {3, 80, 96, 112, DATA_OFFSET, DATA_OFFSET + 16}
             \cup { DATA_OFFSET + CK_LEN + n : n \in DataLens }

\* PKCS7 pad counts a block may end in: 0 stands for malformed padding
CkPads    == {0, 12, 16}     \* 12 leaves the 20 bytes of a SHA-1
Pads      == {0, 1, 16}

----------------------------------------------------------------------------
(* Pure functions *)

\* SHA-512(password || salt), lines 83-86: a digest as <<first half, last half>>;
\* injective on Passwords \X Salts, the first half depending on both arguments.
Sha512(pw, s) == << ((pw + s) % 2) + 1, pw >>

\* line 87: GenericArray::from_slice(&hash) != &result compares all 64 bytes
PasswordOk_first32(pw, s, h) == Sha512(pw, s)[1] = h[1]
PasswordOk(pw, s, h) == Sha512(pw, s) = h

\* line 92: key = &hash[..32]
KeyOf_last32(h) == h[2]
KeyOf(h) == h[1]

\* line 52: !args.no_write & new_file_name.exists() & !args.force
DestBlocked_force(no_write, exists, force) == ~no_write /\ exists /\ force
DestBlocked(no_write, exists, force) == ~no_write /\ exists /\ ~force

\* line 62: magic[..3] != [0x45, 0x5a, 0x43]
MagicBad_first(m) == m[1] # EZC[1]
MagicBad(m) == m # EZC

\* line 66: magic[3] != 2
VersionBad(v) == v # VERSION

\* u64 subtraction.  A u64 is written as an integer r: r >= 0 is the value r,
\* r < 0 is the wrapped value 2^64 + r (only differences of file offsets occur,
\* so |r| is far below 2^63).  With overflow checks the subtraction panics
\* instead of wrapping.
Underflows(a, b) == a >= 0 /\ b >= 0 /\ a < b
WrappingSub(a, b) == a - b

\* u64 division by CHUNK_SIZE = 2^15, which divides 2^64:
\* (2^64 + r) / 2^15 = 2^49 + floor(r / 2^15), again written as a negative.
DivChunk(a) == a \div CHUNK_SIZE

\* i < n for a loop index i (always small) and a u64 n
Below(i, n) == n < 0 \/ i < n

\* a u64 used as a slice end: exceeds CHUNK_SIZE when wrapped
ExceedsBuf(n) == n < 0 \/ n > CHUNK_SIZE

Min(a, b) == IF a < b THEN a ELSE b
Max(a, b) == IF a > b THEN a ELSE b

\* bytes of the input file at and after offset p
Avail(p) == IF truncated THEN 0 ELSE Max(0, file.size - p)

\* Pkcs7 unpadding of n bytes whose last block ends in pad count p (0: malformed);
\* block_padding: the length must be a positive multiple of the block size
UnpadOk(n, p) == n > 0 /\ n % BLOCK = 0 /\ p \in 1..BLOCK

\* line 142: from_slice::<U20> asserts the slice length
FromSliceOk(n) == n = SHA1_LEN

\* the field f of the file: drawn from S at the first read, fixed afterwards
Draw(f, S) == IF f \in known THEN {file[f]} ELSE S

----------------------------------------------------------------------------
(* Initial state: the command line, the file system, and main's fresh locals *)

NoChecksum  == [len |-> 0, tag |-> "none"]
NoDecryptor == [key |-> 0, iv |-> "none"]
NoDest      == [exists |-> FALSE, tag |-> "none", len |-> 0]
NoResult    == [outcome |-> "none", src |-> NoChecksum, calc |-> "none", warned |-> FALSE]

\* clap: password is required unless override_password is present (line 28)
ArgsSet ==
    { [force |-> f, no_write |-> n, override_password |-> o, password |-> p] :
        f \in BOOLEAN, n \in BOOLEAN, o \in BOOLEAN, p \in Passwords \cup {None} }
    \ { a \in [force : BOOLEAN, no_write : BOOLEAN, override_password : BOOLEAN,
               password : Passwords \cup {None}] :
        ~a.override_password /\ a.password = None }

\* the fields of the input file that are drawn later start as placeholders
Undrawn ==
    [magic |-> EZC, major |-> VERSION, salt |-> 1, hash |-> <<1, 1>>,
     encKey |-> 1, ckPad |-> 0, ckGood |-> FALSE, ckJunkPad |-> 0,
     pad |-> 0, junkPad |-> 0, overflowChecks |-> FALSE, shortRead |-> FALSE]

\* isFile: args.file.is_file(); sameName: args.file has no extension, so that
\* with_extension("") is args.file itself; destExisted: new_file_name.exists()
FileSet ==
    { [isFile |-> i, sameName |-> s, destExisted |-> d, size |-> z] @@ Undrawn :
        i \in BOOLEAN, s \in BOOLEAN, d \in BOOLEAN, z \in Sizes \cup {0} }

FileOk(f) ==
    /\ f.isFile => f.size \in Sizes
    /\ ~f.isFile => f.size = 0 /\ ~f.sameName
    /\ (f.isFile /\ f.sameName) => f.destExisted

\* main's locals on entry
Fresh ==
    [pc |-> "start", outcome |-> "running", warned |-> FALSE, opened |-> FALSE,
     pos |-> 0, magic |-> [sig |-> <<0, 0, 0>>, major |-> 0], iv |-> "zero",
     salt |-> 0, hash |-> <<0, 0>>, key |-> 0, data_length |-> 0,
     src_checksum |-> NoChecksum, ck_dec |-> NoDecryptor,
     aes_cbc_dec |-> NoDecryptor, dec_file |-> "None", loop_count |-> 0,
     iter |-> 0, processed_bytes |-> 0, last_read |-> 0, final_len |-> 0,
     filehasher |-> [bytes |-> 0, tag |-> "plain"], calc_checksum |-> "none"]

InitLocals ==
    /\ pc = Fresh.pc /\ outcome = Fresh.outcome /\ warned = Fresh.warned
    /\ opened = Fresh.opened /\ pos = Fresh.pos /\ magic = Fresh.magic
    /\ iv = Fresh.iv /\ salt = Fresh.salt /\ hash = Fresh.hash /\ key = Fresh.key
    /\ data_length = Fresh.data_length /\ src_checksum = Fresh.src_checksum
    /\ ck_dec = Fresh.ck_dec /\ aes_cbc_dec = Fresh.aes_cbc_dec
    /\ dec_file = Fresh.dec_file /\ loop_count = Fresh.loop_count
    /\ iter = Fresh.iter /\ processed_bytes = Fresh.processed_bytes
    /\ last_read = Fresh.last_read /\ final_len = Fresh.final_len
    /\ filehasher = Fresh.filehasher /\ calc_checksum = Fresh.calc_checksum

\* the file at new_file_name before the run: absent, some other file, or, when
\* args.file has no extension, the input file itself
OldDest(f) ==
    IF f.destExisted
    THEN [exists |-> TRUE, tag |-> "old", len |-> IF f.sameName THEN f.size ELSE 11]
    ELSE NoDest

InitWorld ==
    /\ file \in { f \in FileSet : FileOk(f) }
    /\ known = {}
    /\ dest = OldDest(file)
    /\ truncated = FALSE

Init ==
    /\ args \in ArgsSet
    /\ InitWorld
    /\ InitLocals
    /\ phase = 1
    /\ first = NoResult

----------------------------------------------------------------------------
(* main, statement by statement *)

hdr == <<magic, iv, salt, hash, key>>
cks == <<data_length, src_checksum, ck_dec>>
eng == <<aes_cbc_dec, dec_file, loop_count, iter, processed_bytes, last_read,
         final_len, filehasher, calc_checksum>>
run == <<args, phase, first>>

\* panic!, or unwrap() of an Err
Abort(kind) == pc' = "abort" /\ outcome' = kind
Goto(l)     == pc' = l /\ outcome' = outcome

\* lines 47-49
Start ==
    /\ pc = "start"
    /\ IF ~file.isFile THEN Abort("NotFile") ELSE Goto("dest")
    /\ UNCHANGED <<run, world, warned, opened, pos, hdr, cks, eng>>

\* lines 51-54
CheckDestination ==
    /\ pc = "dest"
    /\ IF DestBlocked(args.no_write, dest.exists, args.force)
       THEN Abort("DestExists")
       ELSE Goto("open")
    /\ UNCHANGED <<run, world, warned, opened, pos, hdr, cks, eng>>

\* lines 56-59: File::open, read_exact of the first seven bytes
ReadMagic ==
    /\ pc = "open"
    /\ opened' = TRUE
    /\ IF Avail(0) < MAGIC_LEN
       THEN /\ Abort("IOError")
            /\ UNCHANGED <<magic, pos, file, known>>
       ELSE \E sig \in Draw("magic", Magics), v \in Draw("major", Majors) :
            /\ magic' = [sig |-> sig, major |-> v]
            /\ file' = [file EXCEPT !.magic = sig, !.major = v]
            /\ known' = known \cup {"magic", "major"}
            /\ pos' = MAGIC_LEN
            /\ Goto("magic")
    /\ UNCHANGED <<run, dest, truncated, warned, iv, salt, hash, key, cks, eng>>

\* lines 62-64
CheckMagic ==
    /\ pc = "magic"
    /\ IF MagicBad(magic.sig) THEN Abort("FormatError") ELSE Goto("version")
    /\ UNCHANGED <<run, world, warned, opened, pos, hdr, cks, eng>>

\* lines 66-70
CheckVersion ==
    /\ pc = "version"
    /\ IF VersionBad(magic.major) THEN Abort("VersionError") ELSE Goto("iv")
    /\ UNCHANGED <<run, world, warned, opened, pos, hdr, cks, eng>>

\* lines 72-74: seek(Start(IV_OFFSET)), read_exact of the IV
ReadIv ==
    /\ pc = "iv"
    /\ IF Avail(IV_OFFSET) < IV_LEN
       THEN Abort("IOError") /\ UNCHANGED <<iv, pos>>
       ELSE iv' = "iv" /\ pos' = IV_OFFSET + IV_LEN /\ Goto("salt")
    /\ UNCHANGED <<run, world, warned, opened, magic, salt, hash, key, cks, eng>>

\* lines 76-77
ReadSalt ==
    /\ pc = "salt"
    /\ IF Avail(pos) < SALT_LEN
       THEN Abort("IOError") /\ UNCHANGED <<salt, pos, file, known>>
       ELSE \E s \in Draw("salt", Salts) :
            /\ salt' = s
            /\ file' = [file EXCEPT !.salt = s]
            /\ known' = known \cup {"salt"}
            /\ pos' = pos + SALT_LEN
            /\ Goto("hash")
    /\ UNCHANGED <<run, dest, truncated, warned, opened, magic, iv, hash, key, cks, eng>>

\* lines 79-80
ReadHash ==
    /\ pc = "hash"
    /\ IF Avail(pos) < HASH_LEN
       THEN Abort("IOError") /\ UNCHANGED <<hash, pos, file, known>>
       ELSE \E h \in Draw("hash", Keys \X Tails) :
            /\ hash' = h
            /\ file' = [file EXCEPT !.hash = h]
            /\ known' = known \cup {"hash"}
            /\ pos' = pos + HASH_LEN
            /\ Goto("verify")
    /\ UNCHANGED <<run, dest, truncated, warned, opened, magic, iv, salt, key, cks, eng>>

\* lines 82-92: the password check, then key = &hash[..32]
Verify ==
    /\ pc = "verify"
    /\ IF ~args.override_password /\ ~PasswordOk(args.password, salt, hash)
       THEN Abort("AuthError") /\ UNCHANGED key
       ELSE key' = KeyOf(hash) /\ Goto("checksum")
    /\ UNCHANGED <<run, world, warned, opened, pos, magic, iv, salt, hash, cks, eng>>

\* lines 94-97: seek(End(-0x20)), read_exact of the checksum, data_length
ReadChecksum ==
    /\ pc = "checksum"
    /\ LET size            == Avail(0)
           checksum_offset == size - CK_LEN
           under           == Underflows(checksum_offset, DATA_OFFSET)
       IN  IF size < CK_LEN
           THEN /\ Abort("IOError")
                /\ UNCHANGED <<pos, data_length, file, known>>
           ELSE \E oc \in (IF under THEN Draw("overflowChecks", BOOLEAN)
                                    ELSE {file.overflowChecks}) :
                /\ pos' = size
                /\ file' = [file EXCEPT !.overflowChecks = oc]
                /\ known' = IF under THEN known \cup {"overflowChecks"} ELSE known
                /\ IF under /\ oc
                   THEN Abort("ArithPanic") /\ UNCHANGED data_length
                   ELSE /\ data_length' = WrappingSub(checksum_offset, DATA_OFFSET)
                        /\ Goto("decrypt_checksum")
    /\ UNCHANGED <<run, dest, truncated, warned, opened, hdr, src_checksum, ck_dec, eng>>

\* what decrypting the trailing checksum under k yields: [pad, tag]
CkPlain(k, f) ==
    IF k = f.encKey
    THEN [pad |-> f.ckPad, tag |-> IF f.ckGood THEN "sha1(plain)" ELSE "other"]
    ELSE [pad |-> f.ckJunkPad, tag |-> "junk"]

\* lines 99-103: a fresh decryptor from (key, iv), decrypt_padded_mut::<Pkcs7>
DecryptChecksum ==
    /\ pc = "decrypt_checksum"
    /\ ck_dec' = [key |-> key, iv |-> iv]
    /\ \E ek \in Draw("encKey", Keys), cp \in Draw("ckPad", CkPads) :
       \E cg \in Draw("ckGood", IF cp = CK_LEN - SHA1_LEN THEN BOOLEAN ELSE {FALSE}),
          jp \in (IF key = ek THEN {file.ckJunkPad} ELSE Draw("ckJunkPad", CkPads)) :
       LET f == [file EXCEPT !.encKey = ek, !.ckPad = cp, !.ckGood = cg, !.ckJunkPad = jp]
           r == CkPlain(ck_dec'.key, f)
       IN  /\ file' = f
           /\ known' = known \cup {"encKey", "ckPad", "ckGood"}
                             \cup (IF key = ek THEN {} ELSE {"ckJunkPad"})
           /\ IF UnpadOk(CK_LEN, r.pad)
              THEN /\ src_checksum' = [len |-> CK_LEN - r.pad, tag |-> r.tag]
                   /\ Goto("output")
              ELSE Abort("PaddingError") /\ UNCHANGED src_checksum
    /\ UNCHANGED <<run, dest, truncated, warned, opened, pos, hdr, data_length, eng>>

\* lines 105-114: seek(Start(DATA_OFFSET)), the content decryptor, File::create
\* unless --no-write.  Creating new_file_name truncates it; when new_file_name is
\* args.file itself, that is the file enc_file reads.
OpenOutput ==
    /\ pc = "output"
    /\ pos' = DATA_OFFSET
    /\ aes_cbc_dec' = [key |-> key, iv |-> iv]
    /\ processed_bytes' = 0
    /\ filehasher' = [bytes |-> 0, tag |-> "plain"]
    /\ IF args.no_write
       THEN dec_file' = "None" /\ UNCHANGED <<dest, truncated>>
       ELSE /\ dec_file' = "Some"
            /\ dest' = [exists |-> TRUE, tag |-> "plain", len |-> 0]
            /\ truncated' = file.sameName
    /\ Goto("range")
    /\ UNCHANGED <<run, file, known, warned, opened, hdr, cks, loop_count, iter,
                   last_read, final_len, calc_checksum>>

\* line 116: the range 0..((data_length - 0x10) / CHUNK_SIZE), evaluated once
EnterLoop ==
    /\ pc = "range"
    /\ LET under == Underflows(data_length, BLOCK)
       IN  \E oc \in (IF under THEN Draw("overflowChecks", BOOLEAN)
                               ELSE {file.overflowChecks}) :
           /\ file' = [file EXCEPT !.overflowChecks = oc]
           /\ known' = IF under THEN known \cup {"overflowChecks"} ELSE known
           /\ IF under /\ oc
              THEN Abort("ArithPanic") /\ UNCHANGED loop_count
              ELSE /\ loop_count' = DivChunk(WrappingSub(data_length, BLOCK))
                   /\ Goto("loop")
    /\ UNCHANGED <<run, dest, truncated, warned, opened, pos, hdr, cks, aes_cbc_dec,
                   dec_file, iter, processed_bytes, last_read, final_len,
                   filehasher, calc_checksum>>

\* the stream after n more bytes, decrypted intact or not, went into it
Fed(stream, n, intact) ==
    [bytes |-> stream.bytes + n,
     tag   |-> IF intact /\ stream.tag = "plain" THEN "plain" ELSE "junk"]

\* f.write_all(..) on dec_file, lines 125-127 and 136-138
Written(d, some, n, intact) ==
    IF some = "Some"
    THEN [exists |-> TRUE, len |-> d.len + n,
          tag |-> IF intact /\ d.tag = "plain" THEN "plain" ELSE "junk"]
    ELSE d

\* lines 116-129: one iteration of the chunk loop
Chunk ==
    /\ pc = "loop"
    /\ Below(iter, loop_count)
    /\ IF Avail(pos) < CHUNK_SIZE
       THEN /\ Abort("IOError")
            /\ UNCHANGED <<pos, filehasher, dest, processed_bytes, iter>>
       ELSE LET intact == aes_cbc_dec.key = file.encKey
            IN  /\ pos' = pos + CHUNK_SIZE
                /\ filehasher' = Fed(filehasher, CHUNK_SIZE, intact)
                /\ dest' = Written(dest, dec_file, CHUNK_SIZE, intact)
                /\ processed_bytes' = processed_bytes + CHUNK_SIZE
                /\ iter' = iter + 1
                /\ Goto("loop")
    /\ UNCHANGED <<run, file, known, truncated, warned, opened, hdr, cks, aes_cbc_dec,
                   dec_file, loop_count, last_read, final_len, calc_checksum>>

\* what enc_file.read(&mut buf) may return when n bytes can be had: all of them,
\* or, Read::read promising no more than that, fewer
ReadCounts(n, short) == IF short THEN {Min(n, BLOCK)} ELSE {n}

\* line 131: let _ = enc_file.read(&mut buf).unwrap(), the count dropped
FinalRead ==
    /\ pc = "loop"
    /\ ~Below(iter, loop_count)
    /\ LET n == Min(CHUNK_SIZE, Avail(pos))
       IN  \E sr \in (IF n > BLOCK THEN Draw("shortRead", BOOLEAN) ELSE {file.shortRead}) :
           \E got \in ReadCounts(n, sr) :
           /\ file' = [file EXCEPT !.shortRead = sr]
           /\ known' = IF n > BLOCK THEN known \cup {"shortRead"} ELSE known
           /\ last_read' = got
           /\ pos' = pos + got
    /\ Goto("final")
    /\ UNCHANGED <<run, dest, truncated, warned, opened, hdr, cks, aes_cbc_dec, dec_file,
                   loop_count, iter, processed_bytes, final_len, filehasher,
                   calc_checksum>>

\* lines 132-138: the slice buf[0..data_length - processed_bytes],
\* decrypt_padded_mut::<Pkcs7>, then the hash and the output
FinalChunk ==
    /\ pc = "final"
    /\ LET n      == WrappingSub(data_length, processed_bytes)
           intact == last_read >= n /\ aes_cbc_dec.key = file.encKey
           blocks == n > 0 /\ n % BLOCK = 0
       IN  IF ExceedsBuf(n)
           THEN /\ Abort("SlicePanic")
                /\ UNCHANGED <<final_len, filehasher, dest, file, known>>
           ELSE \E p \in (IF blocks THEN Draw("pad", Pads) ELSE {file.pad}),
                   j \in (IF blocks /\ ~intact THEN Draw("junkPad", Pads) ELSE {file.junkPad}) :
                /\ file' = [file EXCEPT !.pad = p, !.junkPad = j]
                /\ known' = known \cup (IF ~blocks THEN {}
                                        ELSE IF intact THEN {"pad"} ELSE {"pad", "junkPad"})
                /\ final_len' = n
                /\ LET q == IF intact THEN p ELSE j
                   IN  IF UnpadOk(n, q)
                       THEN /\ filehasher' = Fed(filehasher, n - q, intact)
                            /\ dest' = Written(dest, dec_file, n - q, intact)
                            /\ Goto("compare")
                       ELSE /\ Abort("PaddingError")
                            /\ UNCHANGED <<filehasher, dest>>
    /\ UNCHANGED <<run, truncated, warned, opened, pos, hdr, cks, aes_cbc_dec, dec_file,
                   loop_count, iter, processed_bytes, last_read, calc_checksum>>

\* filehasher.finalize(): SHA-1 of what went in
Sha1(stream) == IF stream.tag = "plain" THEN "sha1(plain)" ELSE "sha1(junk)"

\* lines 140-144
Compare ==
    /\ pc = "compare"
    /\ calc_checksum' = Sha1(filehasher)
    /\ IF FromSliceOk(src_checksum.len)
       THEN /\ warned' = (src_checksum.tag # calc_checksum')
            /\ pc' = "done"
            /\ outcome' = "ok"
       ELSE Abort("LenPanic") /\ UNCHANGED warned
    /\ UNCHANGED <<run, world, opened, pos, hdr, cks, aes_cbc_dec, dec_file, loop_count,
                   iter, processed_bytes, last_read, final_len, filehasher>>

Terminated == pc \in {"done", "abort"}

Next ==
    \/ Start \/ CheckDestination \/ ReadMagic \/ CheckMagic \/ CheckVersion
    \/ ReadIv \/ ReadSalt \/ ReadHash \/ Verify
    \/ ReadChecksum \/ DecryptChecksum \/ OpenOutput
    \/ EnterLoop \/ Chunk \/ FinalRead \/ FinalChunk \/ Compare

Spec == Init /\ [][Next]_vars

----------------------------------------------------------------------------
(* Two invocations on the same file system: the writing one, then --no-write *)

\* main is entered again with no_write set; the file system is as it was
\* before the first invocation, the file holds the bytes it held
Rerun ==
    /\ Terminated
    /\ phase = 1
    /\ phase' = 2
    /\ first' = [outcome |-> outcome, src |-> src_checksum,
                 calc |-> calc_checksum, warned |-> warned]
    /\ args' = [args EXCEPT !.no_write = TRUE]
    /\ dest' = OldDest(file)
    /\ truncated' = FALSE
    /\ UNCHANGED <<file, known>>
    /\ pc' = Fresh.pc /\ outcome' = Fresh.outcome /\ warned' = Fresh.warned
    /\ opened' = Fresh.opened /\ pos' = Fresh.pos /\ magic' = Fresh.magic
    /\ iv' = Fresh.iv /\ salt' = Fresh.salt /\ hash' = Fresh.hash /\ key' = Fresh.key
    /\ data_length' = Fresh.data_length /\ src_checksum' = Fresh.src_checksum
    /\ ck_dec' = Fresh.ck_dec /\ aes_cbc_dec' = Fresh.aes_cbc_dec
    /\ dec_file' = Fresh.dec_file /\ loop_count' = Fresh.loop_count
    /\ iter' = Fresh.iter /\ processed_bytes' = Fresh.processed_bytes
    /\ last_read' = Fresh.last_read /\ final_len' = Fresh.final_len
    /\ filehasher' = Fresh.filehasher /\ calc_checksum' = Fresh.calc_checksum

InitDiff == Init /\ ~args.no_write

NextDiff == Next \/ Rerun

SpecDiff == InitDiff /\ [][NextDiff]_vars

----------------------------------------------------------------------------
(* Properties *)

\* the output file has not been created or truncated by this run
OutputUntouched == dec_file = "None" /\ dest = OldDest(file) /\ ~truncated

\* nothing has been decrypted
NothingDecrypted ==
    /\ ck_dec = NoDecryptor /\ src_checksum = NoChecksum
    /\ aes_cbc_dec = NoDecryptor /\ filehasher.bytes = 0 /\ processed_bytes = 0

MagicRead == magic # Fresh.magic
HashRead  == hash # Fresh.hash

\* the length of the data region: what lies between the header and the checksum
RegionLen == file.size - DATA_OFFSET - CK_LEN

\* C1: once the header hash is read, a run that does not override verification
\* and whose SHA-512(password || salt) differs from it gets no further than the
\* check, ends in the incorrect-password abort, and at every moment has not
\* created the output, decrypted the checksum or decrypted any data.
C1_WrongPasswordAborts ==
    (HashRead /\ ~args.override_password /\ Sha512(args.password, salt) # hash)
        => /\ pc \in {"verify", "abort"}
           /\ pc = "abort" => outcome = "AuthError"
           /\ key = Fresh.key
           /\ OutputUntouched
           /\ NothingDecrypted

\* a wrong password whose digest agrees with the stored one in the first 32 bytes
C1_Witness ==
    /\ pc = "abort" /\ outcome = "AuthError"
    /\ Sha512(args.password, salt)[1] = hash[1]
    /\ file.destExisted /\ args.force

\* C2: with the destination present, neither --force nor --no-write, the run
\* stops at the destination check: the input is never opened and the
\* destination keeps its content in every state.
C2_ExistingDestinationUntouched ==
    (file.isFile /\ file.destExisted /\ ~args.force /\ ~args.no_write)
        => /\ pc \in {"start", "dest", "abort"}
           /\ pc = "abort" => outcome = "DestExists"
           /\ ~opened /\ pos = 0
           /\ dest = OldDest(file) /\ ~truncated /\ dec_file = "None"

C2_Witness ==
    /\ pc = "abort" /\ outcome = "DestExists"
    /\ ~file.sameName /\ dest = OldDest(file) /\ ~args.no_write /\ ~args.force

\* C3 (as claimed): once the checksum and the whole data region are decrypted
\* and unpadded, the run finishes normally whatever the length and value of the
\* decrypted checksum; a difference from the content hash only sets the warning,
\* and the output written stays.
C3_MismatchOnlyWarns ==
    calc_checksum # "none"
        => /\ pc = "done" /\ outcome = "ok"
           /\ warned = (src_checksum # [len |-> SHA1_LEN, tag |-> calc_checksum])
           /\ ~args.no_write => (dest.exists /\ dest.len = filehasher.bytes)

\* C4 (as claimed): a file with a valid, verified header that is shorter than
\* header + checksum + one block ends in the I/O error.
C4_TruncatedIsIOError ==
    (Terminated /\ key # Fresh.key /\ file.size < DATA_OFFSET + CK_LEN + BLOCK)
        => outcome = "IOError"

\* the container is well formed and the password is right
WellFormed ==
    /\ RegionLen > 0 /\ RegionLen % BLOCK = 0
    /\ ~args.override_password /\ key = file.encKey
    /\ file.ckPad = CK_LEN - SHA1_LEN /\ file.ckGood
    /\ "pad" \in known /\ file.pad \in 1..BLOCK

\* C5 (as claimed): on a well-formed container and the right password the run
\* finishes, the chunks and the final chunk add up to the data region, and the
\* bytes hashed and (unless --no-write) written are data_length - p.
C5_ByteAccounting ==
    (WellFormed /\ Terminated)
        => /\ outcome = "ok"
           /\ processed_bytes + final_len = RegionLen
           /\ processed_bytes = iter * CHUNK_SIZE
           /\ filehasher.bytes = RegionLen - file.pad
           /\ ~args.no_write => dest.len = RegionLen - file.pad

\* C6 (as claimed): whenever a decryptor exists and a password was supplied, its
\* key is the first 32 bytes of SHA-512(password || salt).
C6_KeyFromPassword ==
    args.password # None
        => /\ ck_dec # NoDecryptor => ck_dec.key = Sha512(args.password, salt)[1]
           /\ aes_cbc_dec # NoDecryptor => aes_cbc_dec.key = Sha512(args.password, salt)[1]

\* C6 (amended): both decryptors are keyed with the first 32 bytes of the
\* verification hash stored in the header; when verification is performed this
\* is the first 32 bytes of SHA-512(password || salt).
C6_KeyFromHeaderHash ==
    \A d \in {ck_dec, aes_cbc_dec} :
        d # NoDecryptor
            => /\ d.key = file.hash[1]
               /\ d.iv = "iv"
               /\ ~args.override_password => d.key = Sha512(args.password, file.salt)[1]

\* override with a password that is not the container's
C6_Witness ==
    /\ ck_dec # NoDecryptor /\ aes_cbc_dec # NoDecryptor
    /\ args.override_password /\ args.password # None
    /\ aes_cbc_dec.key # Sha512(args.password, salt)[1]

\* C7: once the first seven bytes are read, a signature other than "EZC" stops
\* the run with the not-an-EasyCrypt-file abort, and, the signature being right,
\* a major version other than 2 stops it with the unsupported-version abort;
\* the IV, salt and hash are then never read and the output never created.
C7_BadHeaderRejected ==
    /\ (MagicRead /\ magic.sig # EZC)
         => /\ pc \in {"magic", "abort"}
            /\ pc = "abort" => outcome = "FormatError"
    /\ (MagicRead /\ magic.sig = EZC /\ magic.major # VERSION)
         => /\ pc \in {"magic", "version", "abort"}
            /\ pc = "abort" => outcome = "VersionError"
    /\ (MagicRead /\ (magic.sig # EZC \/ magic.major # VERSION))
         => /\ iv = Fresh.iv /\ salt = Fresh.salt /\ hash = Fresh.hash
            /\ OutputUntouched

\* only the last signature byte is wrong, and the version is the supported one
C7_Witness ==
    /\ pc = "abort" /\ outcome = "FormatError"
    /\ magic.sig[1] = EZC[1] /\ magic.sig[2] = EZC[2] /\ magic.major = VERSION

\* C8 (as claimed): the --no-write invocation leaves the destination alone and
\* ends as the writing invocation on the same input ended, unless that one was
\* stopped at the destination check.
C8_DryRunSameOutcome ==
    phase = 2
        => /\ OutputUntouched
           /\ (Terminated /\ first.outcome # "DestExists")
                => /\ outcome = first.outcome
                   /\ src_checksum = first.src
                   /\ calc_checksum = first.calc
                   /\ warned = first.warned

\* C9 (as claimed): the run never works on more bytes of the final chunk than
\* the read returned, unless it aborted with the I/O error.
C9_ReadsExact ==
    final_len > last_read => outcome = "IOError"

\* C10 (as claimed): with a verified header and a checksum that unpads, a data
\* region whose length is no multiple of 16 ends in the unpadding failure of
\* the final chunk, the final slice within the buffer.
C10_MalformedLengthIsPaddingError ==
    (Terminated /\ ~args.override_password /\ src_checksum # NoChecksum
        /\ RegionLen >= 0 /\ RegionLen % BLOCK # 0)
        => /\ outcome = "PaddingError"
           /\ final_len = RegionLen - processed_bytes
           /\ final_len <= CHUNK_SIZE

====
